---------------------------- MODULE Spec2Model ----------------------------
(***************************************************************************)
(* The itinerary persistence service of src/App.tsx (lines 628-721): the   *)
(* SQLite table `itineraries` and the five Express routes over it; and the *)
(* presentation layer (lines 90-266): the state of component App, its      *)
(* handlers, and the requests they have in flight.                         *)
(*                                                                         *)
(* Text is a sequence of one-character strings, so that template literals  *)
(* and the JSON encoding of the list-valued columns are computed character *)
(* by character.  A JavaScript / SQL value is a record [t, v]: t is        *)
(* "undefined", "null" or "string", v the text of a string.                *)
(***************************************************************************)
EXTENDS Integers, Sequences, FiniteSets, TLC

\* ------------------------------------------------------------- bounds
\* Number of distinct uuids the generator can hand out (bounds the creates).
MaxIds == 2
\* The clock (CURRENT_TIMESTAMP, whole seconds) runs from 0 to MaxTime.
MaxTime == 1
\* The sequences encoded and decoded have at most MaxSeqLen elements.
MaxSeqLen == 2
\* The form offers the first MaxChoices interests and activity types.
MaxChoices == 3
\* The page has at most MaxCalls requests in flight at a time.
MaxCalls == 2

\* ------------------------------------------------------------- values
Undefined == [t |-> "undefined", v |-> <<>>]
Null == [t |-> "null", v |-> <<>>]
Str(s) == [t |-> "string", v |-> s]

\* String(v) as a template literal `${v}` computes it.
StringOf(x) ==
  CASE x.t = "undefined" -> <<"u", "n", "d", "e", "f", "i", "n", "e", "d">>
    [] x.t = "null" -> <<"n", "u", "l", "l">>
    [] OTHER -> x.v

\* JavaScript truthiness of undefined, null and strings.
Truthy(x) == x.t = "string" /\ x.v # <<>>

\* a ?? b in place of a || b: only undefined and null give way.
OrElse_Nullish(a, b) == IF a.t \in {"undefined", "null"} THEN b ELSE a

\* a || b
OrElse(a, b) == IF Truthy(a) THEN a ELSE b

\* `Viaggio a ${destination}`
DefaultTitle(destination) ==
  Str(<<"V", "i", "a", "g", "g", "i", "o", " ", "a", " ">> \o StringOf(destination))

\* --------------------------------------------------------------- JSON
\* A stringify that copies the characters of a string without escaping.
RECURSIVE QuoteChars_NoEscape(_)
QuoteChars_NoEscape(s) ==
  IF s = <<>> THEN <<>> ELSE <<Head(s)>> \o QuoteChars_NoEscape(Tail(s))

\* JSON.stringify of one string: quotes and backslashes are escaped, a line
\* feed is written \n.
RECURSIVE QuoteChars(_)
QuoteChars(s) ==
  IF s = <<>> THEN <<>>
  ELSE (IF Head(s) \in {"\"", "\\"} THEN <<"\\", Head(s)>>
        ELSE IF Head(s) = "\n" THEN <<"\\", "n">>
        ELSE <<Head(s)>>)
       \o QuoteChars(Tail(s))

Quote(s) == <<"\"">> \o QuoteChars(s) \o <<"\"">>

RECURSIVE JoinQuoted(_)
JoinQuoted(arr) ==
  IF arr = <<>> THEN <<>>
  ELSE IF Len(arr) = 1 THEN Quote(arr[1])
  ELSE Quote(arr[1]) \o <<",">> \o JoinQuoted(Tail(arr))

\* JSON.stringify of an array of strings.
JSONstringify(arr) == <<"[">> \o JoinQuoted(arr) \o <<"]">>

ParseFail == [ok |-> FALSE, v |-> <<>>, n |-> 0]

\* Reads the characters of a JSON string from position i (after the opening
\* quote) up to the closing quote; n is the position after it.  A control
\* character must be escaped.
RECURSIVE ScanString(_, _, _)
ScanString(t, i, acc) ==
  IF i > Len(t) THEN ParseFail
  ELSE IF t[i] = "\"" THEN [ok |-> TRUE, v |-> acc, n |-> i + 1]
  ELSE IF t[i] = "\\"
    THEN IF i + 1 <= Len(t) /\ t[i + 1] \in {"\"", "\\", "/"}
           THEN ScanString(t, i + 2, Append(acc, t[i + 1]))
         ELSE IF i + 1 <= Len(t) /\ t[i + 1] = "n"
           THEN ScanString(t, i + 2, Append(acc, "\n"))
           ELSE ParseFail
  ELSE IF t[i] = "\n" THEN ParseFail
  ELSE ScanString(t, i + 1, Append(acc, t[i]))

\* Reads the elements of a JSON array from position i (an element starts
\* there) up to the closing bracket, which must end the text.
RECURSIVE ScanElements(_, _, _)
ScanElements(t, i, acc) ==
  IF i > Len(t) \/ t[i] # "\"" THEN ParseFail
  ELSE LET e == ScanString(t, i + 1, <<>>) IN
       IF ~e.ok \/ e.n > Len(t) THEN ParseFail
       ELSE IF t[e.n] = "]"
         THEN IF e.n = Len(t)
                THEN [ok |-> TRUE, v |-> Append(acc, e.v), n |-> e.n + 1]
                ELSE ParseFail
       ELSE IF t[e.n] = ","
         THEN ScanElements(t, e.n + 1, Append(acc, e.v))
       ELSE ParseFail

\* JSON.parse of the text of an array of strings: [ok, v]; ~ok is the
\* SyntaxError JSON.parse throws.
JSONparse(t) ==
  IF Len(t) < 2 \/ t[1] # "[" THEN ParseFail
  ELSE IF t[2] = "]" THEN (IF Len(t) = 2 THEN [ok |-> TRUE, v |-> <<>>, n |-> 3]
                           ELSE ParseFail)
  ELSE ScanElements(t, 2, <<>>)


\* ------------------------------------------------------------- inputs
\* The uuids the generator can hand out, named 1..MaxIds.
Ids == 1 .. MaxIds

T_ == <<"T">>
Roma == <<"R">>
Corpo == <<"#">>
Arte == <<"a">>
Musei == <<"m", "\"", ",", "\\">>

Titles == {Undefined, Null, Str(<<>>), Str(T_)}
\* Values of a required field that is not there: absent from the body,
\* null, or the empty string.
MissingValues == {Undefined, Null, Str(<<>>)}
Lists == {<<>>, <<Arte, Arte>>, <<Musei, Arte>>}
\* Titles a PATCH request carries (the request shape is {id, title}).
NewTitles == {Str(<<>>), Str(<<"N">>)}

BaseBody ==
  [title |-> Str(T_), destination |-> Str(Roma), duration |-> 3,
   budget |-> "medio", type |-> "cultural",
   interests |-> <<Arte>>, activities |-> <<>>, content |-> Str(Corpo)]

\* The request bodies of the lifecycle specification: a title given, and
\* none.
PlainBodies == {BaseBody, [BaseBody EXCEPT !.title = Undefined]}

\* The request bodies of the input specification: every title; a missing
\* destination, with and without a title; a missing content; and the
\* list-valued fields.
Bodies ==
  {[BaseBody EXCEPT !.title = t] : t \in Titles}
  \cup {[BaseBody EXCEPT !.destination = d, !.title = t] :
          d \in MissingValues, t \in {Undefined, Str(T_)}}
  \cup {[BaseBody EXCEPT !.content = c] : c \in MissingValues}
  \cup {[BaseBody EXCEPT !.interests = i, !.activities = a] :
          i \in Lists, a \in {<<>>, <<Musei>>}}

\* -------------------------------------------------------------- state
VARIABLES
  itineraries,   \* the rows of table itineraries (with SQLite's hidden rowid)
  now,           \* CURRENT_TIMESTAMP, in whole seconds
  issued,        \* the uuids uuidv4() has returned so far
  res,           \* the last request and the response sent for it
  codec,         \* a sequence on its way through JSON.stringify and JSON.parse
  details,       \* useState: the trip details of the form
  itinerary,     \* useState: the itinerary text displayed, or null
  sharedTripId,  \* useState: the id the displayed itinerary is shared under
  savedTrips,    \* useState: the list of saved trips last fetched
  error,         \* useState: the failure message, or null
  loading,       \* useState: a generation or a load is under way
  pending        \* the calls of async handlers waiting at their await

vars ==
  <<itineraries, now, issued, res, codec,
    details, itinerary, sharedTripId, savedTrips, error, loading, pending>>

NoBody == [none |-> TRUE]

\* No sequence is being encoded.
NoCodec == [stage |-> "idle", s |-> <<>>, text |-> <<>>, out |-> ParseFail]

\* sharedTripId null (an id is one of Ids).
NoTrip == 0
\* error null.
NoError == "null"

\* A call of an async handler at its await: the handler, the request it
\* made, and the answer once there is one.  stage is "sent" (the request is
\* on its way) or "answered" (the response is on its way back); k numbers
\* the calls in flight.
NewCall(k, fn, arg) ==
  [k |-> k, fn |-> fn, stage |-> "sent", arg |-> arg, status |-> 0,
   data |-> NoBody]

\* useState<TripDetails>({...})
InitialDetails ==
  [destination |-> Str(<<>>), duration |-> 3, budget |-> "medio",
   type |-> "cultural", interests |-> <<>>, activities |-> <<>>]

\* The component after its first render and its mount effect, the URL
\* naming no trip: fetchSavedTrips() is waiting for its response.
InitApp ==
  /\ details = InitialDetails
  /\ itinerary = Null
  /\ sharedTripId = NoTrip
  /\ savedTrips = <<>>
  /\ error = NoError
  /\ loading = FALSE
  /\ pending = {NewCall(1, "fetchSavedTrips", NoBody)}

Init ==
  /\ itineraries = {}
  /\ now = 0
  /\ issued = {}
  /\ res = [op |-> "none", req |-> NoBody, status |-> 0, body |-> NoBody]
  /\ codec = NoCodec
  /\ InitApp

\* ----------------------------------------------------------- the store
\* A generator that may repeat a uuid it has returned.
uuidv4_Repeating == Ids

\* uuidv4(): a version-4 uuid, taken never to repeat one already returned.
uuidv4 == Ids \ issued

\* Whether stmt.run accepts the parameter: better-sqlite3 binds undefined
\* as NULL, or (rejectsUndef) rejects it with a TypeError.
Bindable(x, rejectsUndef) == x.t # "undefined" \/ ~rejectsUndef

\* The SQL value a bound parameter is stored as.
Bound(x) == IF x.t = "undefined" THEN Null ELSE x

\* The rowid SQLite gives a new row: one more than the largest in the table.
NextRowid ==
  IF itineraries = {} THEN 1
  ELSE 1 + CHOOSE m \in {r.rowid : r \in itineraries} :
             \A r \in itineraries : r.rowid <= m

\* id TEXT PRIMARY KEY: the insert is refused when the id is in the table.
PrimaryKeyFree(id) == \A r \in itineraries : r.id # id

\* The INSERT with its two list parameters in each other's place.
NewRow_SwappedLists(id, body) ==
  [rowid |-> NextRowid,
   id |-> id,
   title |-> Bound(OrElse(body.title, DefaultTitle(body.destination))),
   destination |-> Bound(body.destination),
   duration |-> body.duration,
   budget |-> body.budget,
   type |-> body.type,
   interests |-> JSONstringify(body.activities),
   activities |-> JSONstringify(body.interests),
   content |-> Bound(body.content),
   created_at |-> now]

\* The row the INSERT of line 663-668 writes.
NewRow(id, body) ==
  [rowid |-> NextRowid,
   id |-> id,
   title |-> Bound(OrElse(body.title, DefaultTitle(body.destination))),
   destination |-> Bound(body.destination),
   duration |-> body.duration,
   budget |-> body.budget,
   type |-> body.type,
   interests |-> JSONstringify(body.interests),
   activities |-> JSONstringify(body.activities),
   content |-> Bound(body.content),
   created_at |-> now]

\* Whether stmt.run of line 668 returns (it throws on a parameter it cannot
\* bind and on a primary-key violation).
RunsInsert(id, body, rejectsUndef) ==
  /\ Bindable(body.destination, rejectsUndef)
  /\ Bindable(body.content, rejectsUndef)
  /\ PrimaryKeyFree(id)

\* A row sent without the columns read last.
Decoded_Partial(row) ==
  [id |-> row.id, title |-> row.title, destination |-> row.destination,
   duration |-> row.duration, budget |-> row.budget, type |-> row.type,
   interests |-> JSONparse(row.interests).v,
   activities |-> JSONparse(row.activities).v]

\* A row as res.json sends it: SELECT * (no rowid), the two list columns
\* parsed.
Decoded(row) ==
  [id |-> row.id, title |-> row.title, destination |-> row.destination,
   duration |-> row.duration, budget |-> row.budget, type |-> row.type,
   interests |-> JSONparse(row.interests).v,
   activities |-> JSONparse(row.activities).v,
   content |-> row.content, created_at |-> row.created_at]

Parses(row) == JSONparse(row.interests).ok /\ JSONparse(row.activities).ok

\* ORDER BY created_at DESC: every order of the rows in which created_at
\* never increases; the order of rows with equal created_at is unspecified.
SelectAllOrders ==
  {s \in [1 .. Cardinality(itineraries) -> itineraries] :
     /\ \A i, j \in DOMAIN s : i # j => s[i] # s[j]
     /\ \A i, j \in DOMAIN s : i < j => s[i].created_at >= s[j].created_at}

\* ------------------------------------------------------------- routes
\* app.post("/api/itineraries")
PostItinerary(body) ==
  \E id \in uuidv4, rejectsUndef \in BOOLEAN :
    /\ issued' = issued \cup {id}
    /\ IF RunsInsert(id, body, rejectsUndef)
         THEN /\ itineraries' = itineraries \cup {NewRow(id, body)}
              /\ res' = [op |-> "create", req |-> body, status |-> 200,
                         body |-> [id |-> id]]
         ELSE /\ itineraries' = itineraries
              /\ res' = [op |-> "create", req |-> body, status |-> 500,
                         body |-> NoBody]
    /\ UNCHANGED now

\* app.get("/api/itineraries")
ListItineraries ==
  /\ \E s \in SelectAllOrders :
       res' = IF \A i \in DOMAIN s : Parses(s[i])
                THEN [op |-> "list", req |-> NoBody, status |-> 200,
                      body |-> [i \in DOMAIN s |-> Decoded(s[i])]]
                ELSE [op |-> "list", req |-> NoBody, status |-> 500,
                      body |-> NoBody]
  /\ UNCHANGED <<itineraries, now, issued>>

\* app.get("/api/itineraries/:id")
GetItinerary(id) ==
  /\ res' = IF \A r \in itineraries : r.id # id
              THEN [op |-> "get", req |-> [id |-> id], status |-> 404,
                    body |-> [error |-> "Not found"]]
            ELSE LET row == CHOOSE r \in itineraries : r.id = id IN
                 IF Parses(row)
                   THEN [op |-> "get", req |-> [id |-> id], status |-> 200,
                         body |-> Decoded(row)]
                   ELSE [op |-> "get", req |-> [id |-> id], status |-> 500,
                         body |-> NoBody]
  /\ UNCHANGED <<itineraries, now, issued>>

\* The UPDATE as an upsert: a row is written when none has the id.
UpdateTitle_Upsert(title, id) ==
  IF \E r \in itineraries : r.id = id
    THEN {IF r.id = id THEN [r EXCEPT !.title = title] ELSE r : r \in itineraries}
    ELSE itineraries \cup
           {[rowid |-> NextRowid, id |-> id, title |-> title,
             destination |-> Null, duration |-> 0, budget |-> "", type |-> "",
             interests |-> <<"[", "]">>, activities |-> <<"[", "]">>,
             content |-> Null, created_at |-> now]}

\* The UPDATE without its WHERE clause: every row gets the title.
UpdateTitle_NoWhere(title, id) ==
  {[r EXCEPT !.title = title] : r \in itineraries}

\* UPDATE itineraries SET title = ? WHERE id = ?
UpdateTitle(title, id) ==
  {IF r.id = id THEN [r EXCEPT !.title = title] ELSE r : r \in itineraries}

\* app.patch("/api/itineraries/:id")
PatchItinerary(id, title) ==
  /\ itineraries' = UpdateTitle(title, id)
  /\ res' = [op |-> "rename", req |-> [id |-> id, title |-> title],
             status |-> 200, body |-> [success |-> TRUE]]
  /\ UNCHANGED <<now, issued>>

\* The DELETE never run: the table stays as it is.
DeleteById_Noop(id) == itineraries

\* The DELETE without its WHERE clause: every row goes.
DeleteById_NoWhere(id) == {}

\* The DELETE with its condition inverted (id != ?): the other rows go.
DeleteById_Inverted(id) == {r \in itineraries : r.id = id}

\* DELETE FROM itineraries WHERE id = ?
DeleteById(id) == {r \in itineraries : r.id # id}

\* app.delete("/api/itineraries/:id")
DeleteItinerary(id) ==
  /\ itineraries' = DeleteById(id)
  /\ res' = [op |-> "delete", req |-> [id |-> id], status |-> 200,
             body |-> [success |-> TRUE]]
  /\ UNCHANGED <<now, issued>>

\* A second passes on the clock CURRENT_TIMESTAMP reads.
Tick ==
  /\ now < MaxTime
  /\ now' = now + 1
  /\ UNCHANGED <<itineraries, issued, res>>

\* What a request to the service leaves alone.
ServiceFrame ==
  UNCHANGED <<codec, details, itinerary, sharedTripId, savedTrips, error,
              loading, pending>>

Create == (\E body \in PlainBodies : PostItinerary(body)) /\ ServiceFrame
CreateAny == (\E body \in Bodies : PostItinerary(body)) /\ ServiceFrame
List == ListItineraries /\ ServiceFrame
Get == (\E id \in Ids : GetItinerary(id)) /\ ServiceFrame
Rename ==
  (\E id \in Ids, title \in NewTitles : PatchItinerary(id, title)) /\ ServiceFrame
Delete == (\E id \in Ids : DeleteItinerary(id)) /\ ServiceFrame
Clock == Tick /\ ServiceFrame

Next == Create \/ List \/ Get \/ Rename \/ Delete \/ Clock

\* The lifecycle of records: few request bodies, every route, the clock.
Spec == Init /\ [][Next]_vars

NextInputs == CreateAny \/ Get

\* What a create stores of its input: every request body, read back.
SpecInputs == Init /\ [][NextInputs]_vars

\* ---------------------------------------------------- the JSON encoding
\* Strings an element of interests or activities may be: plain, empty, and
\* with the characters the encoding has to escape or uses itself.
JsonStrings ==
  {<<>>, Arte, Musei, <<"\"">>, <<"\\">>, <<"\\", "\"">>, <<",">>, <<"]", "[">>,
   <<"\n">>, <<"\\", "n">>}

\* The sequences of at most MaxSeqLen such strings.
JsonSequences == UNION {[1 .. n -> JsonStrings] : n \in 0 .. MaxSeqLen}

InitJson ==
  /\ itineraries = {}
  /\ now = 0
  /\ issued = {}
  /\ res = [op |-> "none", req |-> NoBody, status |-> 0, body |-> NoBody]
  /\ \E s \in JsonSequences :
       codec = [stage |-> "input", s |-> s, text |-> <<>>, out |-> ParseFail]
  /\ InitApp

\* JSON.stringify(interests) on write.
EncodeSequence ==
  /\ codec.stage = "input"
  /\ codec' = [codec EXCEPT !.stage = "encoded", !.text = JSONstringify(codec.s)]
  /\ UNCHANGED <<itineraries, now, issued, res>>
  /\ UNCHANGED <<details, itinerary, sharedTripId, savedTrips, error,
                 loading, pending>>

\* JSON.parse(row.interests) on read.
DecodeSequence ==
  /\ codec.stage = "encoded"
  /\ codec' = [codec EXCEPT !.stage = "decoded", !.out = JSONparse(codec.text)]
  /\ UNCHANGED <<itineraries, now, issued, res>>
  /\ UNCHANGED <<details, itinerary, sharedTripId, savedTrips, error,
                 loading, pending>>

NextJson == EncodeSequence \/ DecodeSequence

\* Sequences of strings written with JSON.stringify and read with JSON.parse.
SpecJson == InitJson /\ [][NextJson]_vars

\* ------------------------------------------------------ the trip form
\* INTERESTS and ACTIVITY_TYPES, each label shortened to its initials.
INTERESTS ==
  <<<<"G">>, Arte, <<"N">>, <<"A", "v">>, <<"V", "N">>, <<"S", "h">>,
    <<"S", "t">>, <<"R">>>>
ACTIVITY_TYPES ==
  <<<<"V", "G">>, <<"E", "s">>, <<"C", "C">>, <<"E", "I">>, <<"S", "A">>,
    <<"M">>>>

\* The first MaxChoices entries of a list of options.
Offered(options) ==
  {options[i] : i \in {j \in DOMAIN options : j <= MaxChoices}}

\* list.includes(v)
Includes(list, v) == \E i \in DOMAIN list : list[i] = v

\* list.filter(i => i !== v)
Filter(list, v) == SelectSeq(list, LAMBDA i : i # v)

\* A toggle that adds the value whether or not it is selected.
Toggled_AlwaysAdds(list, v) == Append(list, v)

\* prev.X.includes(v) ? prev.X.filter(i => i !== v) : [...prev.X, v]
Toggled(list, v) == IF Includes(list, v) THEN Filter(list, v) ELSE Append(list, v)

\* What a handler of the form leaves alone.
FormFrame ==
  UNCHANGED <<itineraries, now, issued, res, codec, itinerary, sharedTripId,
              savedTrips, error, loading, pending>>

toggleInterest(interest) ==
  details' = [details EXCEPT !.interests = Toggled(details.interests, interest)]

toggleActivity(activity) ==
  details' = [details EXCEPT !.activities = Toggled(details.activities, activity)]

\* onChange of the destination input.
setDestination(value) ==
  details' = [details EXCEPT !.destination = Str(value)]

ToggleInterest ==
  (\E interest \in Offered(INTERESTS) : toggleInterest(interest)) /\ FormFrame
ToggleActivity ==
  (\E activity \in Offered(ACTIVITY_TYPES) : toggleActivity(activity)) /\ FormFrame
TypeDestination ==
  (\E value \in {<<>>, Roma} : setDestination(value)) /\ FormFrame

NextForm == ToggleInterest \/ ToggleActivity \/ TypeDestination

\* The form of the trip details: the selections and the destination.
SpecForm == Init /\ [][NextForm]_vars

\* ------------------------------------------------- the presentation layer
\* The messages of setError (the accented letters written e' and u').
ErrLoad == "Impossibile caricare l'itinerario condiviso."
ErrGenerate ==
  "Si e' verificato un errore durante la generazione. Riprova piu' tardi."
ErrSave == "Errore durante il salvataggio."

Altro == <<"%">>
\* The texts generateContent answers with (response.text, no COORDINATE
\* list in it): two itineraries.
Answers == {Corpo, Altro}

\* The page of the URL: no trip parameter, or ?trip=id.
TripParams == {NoTrip} \cup Ids

HasRoom == Cardinality(pending) < MaxCalls

\* The lowest call number not in use.
FreeSlot ==
  CHOOSE k \in 1 .. MaxCalls :
    /\ \A c \in pending : c.k # k
    /\ \A j \in 1 .. (k - 1) : \E c \in pending : c.k = j

\* `Viaggio a ${details.destination}`
TripTitle(destination) ==
  Str(<<"V", "i", "a", "g", "g", "i", "o", " ", "a", " ">> \o StringOf(destination))

\* The trip details a record of the service carries.
DetailsOf(data) ==
  [destination |-> data.destination, duration |-> data.duration,
   budget |-> data.budget, type |-> data.type,
   interests |-> data.interests, activities |-> data.activities]

\* What a step of the page alone leaves as it is.
ServerFrame == UNCHANGED <<itineraries, now, issued, res, codec>>

\* generateItinerary up to its await (the submit button is disabled while
\* loading).
generateItinerary ==
  /\ ~loading
  /\ Truthy(details.destination)
  /\ HasRoom
  /\ loading' = TRUE
  /\ error' = NoError
  /\ itinerary' = Null
  /\ sharedTripId' = NoTrip
  /\ pending' = pending \cup {NewCall(FreeSlot, "generateItinerary", NoBody)}
  /\ UNCHANGED <<details, savedTrips>>

\* generateItinerary after its await.
AfterGenerate(c, fulfilled) ==
  /\ IF fulfilled /\ Truthy(c.data)
       THEN itinerary' = c.data /\ error' = error
       ELSE itinerary' = itinerary /\ error' = ErrGenerate
  /\ loading' = FALSE
  /\ pending' = pending \ {c}
  /\ UNCHANGED <<details, sharedTripId, savedTrips>>

\* saveTrip up to its await (the button is rendered with an itinerary and
\* no sharedTripId).
saveTrip ==
  /\ Truthy(itinerary)
  /\ sharedTripId = NoTrip
  /\ HasRoom
  /\ pending' = pending \cup
       {NewCall(FreeSlot, "saveTrip",
                [title |-> TripTitle(details.destination),
                 destination |-> details.destination,
                 duration |-> details.duration, budget |-> details.budget,
                 type |-> details.type, interests |-> details.interests,
                 activities |-> details.activities, content |-> itinerary])}
  /\ UNCHANGED <<details, itinerary, sharedTripId, savedTrips, error, loading>>

\* saveTrip after its await: res.json() gives the id, or fetch or res.json()
\* is rejected (the body of a 500 is not JSON).
AfterSave(c, fulfilled) ==
  /\ IF fulfilled /\ c.status = 200
       THEN /\ sharedTripId' = c.data.id
            /\ error' = error
            /\ pending' = (pending \ {c}) \cup
                            {NewCall(c.k, "fetchSavedTrips", NoBody)}
       ELSE /\ sharedTripId' = sharedTripId
            /\ error' = ErrSave
            /\ pending' = pending \ {c}
  /\ UNCHANGED <<details, itinerary, savedTrips, loading>>

\* fetchSavedTrips after its await.
AfterFetchSavedTrips(c, fulfilled) ==
  /\ savedTrips' = IF fulfilled /\ c.status = 200
                     THEN c.data ELSE savedTrips
  /\ pending' = pending \ {c}
  /\ UNCHANGED <<details, itinerary, sharedTripId, error, loading>>

\* fetchTrip after its await.
AfterFetchTrip(c, fulfilled) ==
  /\ IF fulfilled /\ c.status = 200
       THEN /\ itinerary' = c.data.content
            /\ details' = DetailsOf(c.data)
            /\ sharedTripId' = c.arg.id
            /\ error' = error
       ELSE /\ error' = ErrLoad
            /\ UNCHANGED <<itinerary, details, sharedTripId>>
  /\ loading' = FALSE
  /\ pending' = pending \ {c}
  /\ UNCHANGED savedTrips

\* deleteTrip up to its await.
deleteTrip(id) ==
  /\ HasRoom
  /\ pending' = pending \cup {NewCall(FreeSlot, "deleteTrip", [id |-> id])}
  /\ UNCHANGED <<details, itinerary, sharedTripId, savedTrips, error, loading>>

\* deleteTrip after its await.
AfterDelete(c, fulfilled) ==
  /\ pending' = IF fulfilled
                  THEN (pending \ {c}) \cup
                         {NewCall(c.k, "fetchSavedTrips", NoBody)}
                  ELSE pending \ {c}
  /\ UNCHANGED <<details, itinerary, sharedTripId, savedTrips, error, loading>>

\* onClick of a saved trip's open button.
openTrip(trip) ==
  /\ itinerary' = trip.content
  /\ details' = DetailsOf(trip)
  /\ sharedTripId' = trip.id
  /\ UNCHANGED <<savedTrips, error, loading, pending>>

\* The page is loaded anew: the state of useState, and the mount effect up
\* to its awaits.  The calls of the page before are left unanswered.
Mount(trip) ==
  /\ details' = InitialDetails
  /\ itinerary' = Null
  /\ sharedTripId' = NoTrip
  /\ savedTrips' = <<>>
  /\ error' = NoError
  /\ loading' = (trip # NoTrip)
  /\ pending' = IF trip = NoTrip
                  THEN {NewCall(1, "fetchSavedTrips", NoBody)}
                  ELSE {NewCall(1, "fetchTrip", [id |-> trip]),
                        NewCall(2, "fetchSavedTrips", NoBody)}

\* The service handles the request of a call.
Handled(c) ==
  CASE c.fn = "saveTrip" -> PostItinerary(c.arg)
    [] c.fn = "fetchSavedTrips" -> ListItineraries
    [] c.fn = "fetchTrip" -> GetItinerary(c.arg.id)
    [] c.fn = "deleteTrip" -> DeleteItinerary(c.arg.id)
    [] OTHER -> FALSE

\* The handler of a call goes on after its await, the promise awaited
\* fulfilled or rejected.
Resumed(c, fulfilled) ==
  CASE c.fn = "generateItinerary" -> AfterGenerate(c, fulfilled)
    [] c.fn = "saveTrip" -> AfterSave(c, fulfilled)
    [] c.fn = "fetchSavedTrips" -> AfterFetchSavedTrips(c, fulfilled)
    [] c.fn = "fetchTrip" -> AfterFetchTrip(c, fulfilled)
    [] c.fn = "deleteTrip" -> AfterDelete(c, fulfilled)

Generate == generateItinerary /\ ServerFrame
Save == saveTrip /\ ServerFrame
DeleteSaved ==
  (\E i \in DOMAIN savedTrips : deleteTrip(savedTrips[i].id)) /\ ServerFrame
OpenSaved ==
  (\E i \in DOMAIN savedTrips : openTrip(savedTrips[i])) /\ ServerFrame
OpenPage == (\E trip \in TripParams : Mount(trip)) /\ ServerFrame

\* A request reaches the service and is answered.
Serve ==
  \E c \in pending :
    /\ c.stage = "sent"
    /\ Handled(c)
    /\ pending' = (pending \ {c}) \cup
         {[c EXCEPT !.stage = "answered", !.status = res'.status,
                    !.data = res'.body]}
    /\ UNCHANGED <<codec, details, itinerary, sharedTripId, savedTrips, error,
                   loading>>

\* generateContent answers a call with a text.
Answered(c, text) ==
  /\ c.stage = "sent"
  /\ c.fn = "generateItinerary"
  /\ pending' = (pending \ {c}) \cup
       {[c EXCEPT !.stage = "answered", !.status = 200, !.data = Str(text)]}
  /\ UNCHANGED <<details, itinerary, sharedTripId, savedTrips, error, loading>>
  /\ ServerFrame

Answer == \E c \in pending, text \in Answers : Answered(c, text)
AnswerCorpo == \E c \in pending : Answered(c, Corpo)

\* The response of a call arrives, and its handler goes on.
Resume ==
  \E c \in pending :
    /\ c.stage = "answered"
    /\ Resumed(c, TRUE)
    /\ ServerFrame

\* The network fails a call, its request or its response lost: the promise
\* awaited is rejected, and its handler goes on in its catch block.
Reject ==
  \E c \in pending :
    /\ Resumed(c, FALSE)
    /\ ServerFrame

NextApp ==
  \/ TypeDestination \/ Generate \/ Save \/ OpenSaved \/ OpenPage
  \/ Serve \/ Answer \/ Reject \/ Resume

\* The page and the service, from generation to sharing: trips generated
\* with either text, saved, opened from the list and loaded by URL, the
\* requests awaited answered, or failed, in any order.
SpecApp == Init /\ [][NextApp]_vars

NextTrips ==
  \/ TypeDestination \/ Generate \/ Save \/ DeleteSaved
  \/ Serve \/ AnswerCorpo \/ Reject \/ Resume

\* The page and the service, saving and deleting: trips generated with one
\* text, saved and deleted from the list, the requests awaited answered,
\* or failed, in any order.
SpecTrips == Init /\ [][NextTrips]_vars

\* ------------------------------------------------------------- claims
StoredIds == {r.id : r \in itineraries}
RowOf(id) == CHOOSE r \in itineraries : r.id = id
Present(x) == x.t = "string" /\ x.v # <<>>
ValidInput(body) == Present(body.destination) /\ Present(body.content)
ViaggioA == <<"V", "i", "a", "g", "g", "i", "o", " ", "a", " ">>
\* The step answers a POST (two POSTs in a row differ in the id returned).
IsCreateStep == res'.op = "create" /\ res' # res
\* The step answers a GET of the id the preceding POST returned.
IsGetAfterCreate ==
  /\ res.op = "create" /\ res.status = 200
  /\ res'.op = "get" /\ res'.req.id = res.body.id

\* The fields of the record a GET returns that are copied from the input.
SameAsInput(body, input) ==
  /\ body.destination = input.destination
  /\ body.duration = input.duration
  /\ body.budget = input.budget
  /\ body.type = input.type
  /\ body.interests = input.interests
  /\ body.activities = input.activities
  /\ body.content = input.content

\* C1, as stated: for every valid input, create followed by get on the
\* returned id returns title, destination, duration, budget, type,
\* interests, activities and content equal to the input, with the generated
\* id and a created_at (a title is compared when the input carries one).
C1_RoundTripAllFields ==
  [][(IsGetAfterCreate /\ ValidInput(res.req)) =>
       /\ res'.status = 200
       /\ res'.body.id = res.body.id
       /\ res'.body.created_at \in 0 .. MaxTime
       /\ res.req.title.t # "undefined" => res'.body.title = res.req.title
       /\ SameAsInput(res'.body, res.req)]_vars

\* C1, amended: for every valid input the create succeeds, and a get on the
\* returned id returns destination, duration, budget, type, interests,
\* activities and content equal to the input (sequences in the same order),
\* the generated id and a created_at; the title equals the input's when that
\* is a non-empty string and is "Viaggio a " followed by the destination
\* otherwise.
C1_RoundTrip ==
  [][/\ (IsCreateStep /\ ValidInput(res'.req)) =>
          (res'.status = 200 /\ res'.body.id \in Ids)
     /\ (IsGetAfterCreate /\ ValidInput(res.req)) =>
          /\ res'.status = 200
          /\ res'.body.id = res.body.id
          /\ res'.body.created_at \in 0 .. MaxTime
          /\ res'.body.title =
               IF Present(res.req.title) THEN res.req.title
               ELSE Str(ViaggioA \o res.req.destination.v)
          /\ SameAsInput(res'.body, res.req)]_vars

\* A get has returned a record created from a valid input with a title and
\* list-valued fields whose strings need escaping.
C1_Witness ==
  /\ res.op = "get" /\ res.status = 200
  /\ res.body.title = Str(T_)
  /\ res.body.interests = <<Musei, Arte>>
  /\ res.body.activities = <<Musei>>

\* Records appear in a listing before every record inserted before them.
NewestFirst(list) ==
  \A i, j \in DOMAIN list :
    i < j => RowOf(list[i].id).rowid > RowOf(list[j].id).rowid

\* C2: after creates with no deletes, list returns the records newest
\* first in insertion order, however closely the creates were spaced.
C2_ListNewestFirst ==
  (res.op = "list" /\ res.status = 200 /\ StoredIds = issued)
    => NewestFirst(res.body)

Missing(x) == ~Present(x)

\* C3: create with destination or content missing fails with a client
\* error, returns no id and leaves the set of stored records as it was.
C3_MissingRejected ==
  [][(IsCreateStep /\ (Missing(res'.req.destination) \/ Missing(res'.req.content)))
       => /\ res'.status = 400
          /\ "id" \notin DOMAIN res'.body
          /\ itineraries' = itineraries]_vars

\* C4: delete reports success whether or not the id existed and leaves no
\* record with that id; a get of the id right after it yields NotFound, and
\* so does a get after a second delete, which reports success too.
C4_DeleteThenGet ==
  [][/\ res'.op = "delete" =>
          /\ res'.status = 200 /\ res'.body = [success |-> TRUE]
          /\ res'.req.id \notin {r.id : r \in itineraries'}
     /\ (res.op = "delete" /\ res'.op = "get" /\ res'.req.id = res.req.id)
          => res'.status = 404]_vars

\* A get has answered NotFound for an id that a create had returned.
C4_Witness ==
  res.op = "get" /\ res.status = 404 /\ res.req.id \in issued

\* C5: renameTitle on an id that is not in the store reports success and
\* leaves the table, hence the length and contents of list(), as it was.
C5_RenameAbsent ==
  [][(res'.op = "rename" /\ res'.req.id \notin StoredIds) =>
       /\ res'.status = 200 /\ res'.body = [success |-> TRUE]
       /\ itineraries' = itineraries]_vars

\* A rename of an id that is not stored was answered while a record is
\* stored.
C5_Witness ==
  res.op = "rename" /\ res.req.id \notin StoredIds /\ itineraries # {}

\* C6: no two stored records share an id, and a create never returns an id
\* that an earlier create returned (also after that record was deleted).
C6_UniqueIds ==
  [][/\ \A r1, r2 \in itineraries' : r1.id = r2.id => r1 = r2
     /\ (IsCreateStep /\ res'.status = 200) =>
          (res'.body.id \notin issued /\ res'.body.id \notin StoredIds)]_vars

\* A create has returned an id after an earlier record was deleted.
C6_Witness ==
  /\ res.op = "create" /\ res.status = 200
  /\ Cardinality(issued) = 2 /\ Cardinality(itineraries) = 1

\* C7: a created record stays retrievable until it is deleted: a create
\* stores a record under the id it returns, a record leaves the store only
\* in a delete of its id, and a get of a stored id returns that record.
C7_Retrievable ==
  [][/\ (IsCreateStep /\ res'.status = 200) =>
          res'.body.id \in {r.id : r \in itineraries'}
     /\ \A r \in itineraries :
          \/ r.id \in {q.id : q \in itineraries'}
          \/ res'.op = "delete" /\ res'.req.id = r.id
     /\ (res'.op = "get" /\ res'.req.id \in StoredIds) =>
          /\ res'.status = 200
          /\ res'.body.id = res'.req.id
          /\ res'.body.title = RowOf(res'.req.id).title
          /\ res'.body.content = RowOf(res'.req.id).content]_vars

\* A get has returned a record after it was renamed and another record was
\* deleted.
C7_Witness ==
  /\ res.op = "get" /\ res.status = 200
  /\ res.body.title = Str(<<"N">>)
  /\ Cardinality(issued) = 2 /\ Cardinality(itineraries) = 1

\* C8: create stores the supplied title when it is a non-empty string, and
\* otherwise "Viaggio a " followed by the destination; the stored title is
\* not empty when the destination is not.
C8_TitleDefault ==
  (res.op = "create" /\ res.status = 200) =>
    LET stored == RowOf(res.body.id).title IN
      /\ Present(res.req.title) => stored = res.req.title
      /\ ~Present(res.req.title) =>
           /\ stored.t = "string"
           /\ Len(stored.v) >= Len(ViaggioA)
           /\ SubSeq(stored.v, 1, Len(ViaggioA)) = ViaggioA
           /\ res.req.destination.t = "string" =>
                stored.v = ViaggioA \o res.req.destination.v
      /\ Present(res.req.destination) => Present(stored)

\* A create with the empty string as title has stored a record.
C8_Witness ==
  res.op = "create" /\ res.status = 200 /\ res.req.title = Str(<<>>)

\* All of a row but its title.
Untitled(r) == [r EXCEPT !.title = Null]

\* C9: renameTitle on an existing id sets the title of that record and
\* changes nothing else of it nor any other record, and no other operation
\* changes a field of an existing record.
C9_RenameOnlyTitle ==
  [][/\ \A r \in itineraries, q \in itineraries' :
          q.id = r.id =>
            /\ Untitled(q) = Untitled(r)
            /\ q.title # r.title =>
                 (res'.op = "rename" /\ res'.req.id = r.id)
     /\ res'.op = "rename" =>
          /\ res'.status = 200
          /\ {q.id : q \in itineraries'} = StoredIds
          /\ \A q \in itineraries' :
               q.id = res'.req.id => q.title = res'.req.title]_vars

\* A rename of a stored record was answered while another record is stored.
C9_Witness ==
  /\ res.op = "rename" /\ res.req.id \in StoredIds
  /\ RowOf(res.req.id).title = Str(<<"N">>)
  /\ Cardinality(itineraries) = 2

\* C10: delete removes at most the record with that id: every other record
\* stays as it was, and the store is unchanged when the id is absent.
C10_DeleteOnlyThat ==
  [][res'.op = "delete" =>
       /\ itineraries' \subseteq itineraries
       /\ \A r \in itineraries : r.id # res'.req.id => r \in itineraries'
       /\ res'.req.id \notin StoredIds => itineraries' = itineraries]_vars

\* A delete has removed a record while another record stays stored.
C10_Witness ==
  /\ res.op = "delete" /\ res.req.id \in issued
  /\ Cardinality(issued) = 2 /\ Cardinality(itineraries) = 1

\* C11: the sequence encoding round-trips: for every sequence of strings,
\* the empty one and ones with duplicates included, JSON.parse of its
\* JSON.stringify succeeds and gives the sequence back, in content and order.
C11_JsonRoundTrip ==
  codec.stage = "decoded" => (codec.out.ok /\ codec.out.v = codec.s)

\* A sequence with a duplicated string that needs escaping was decoded.
C11_Witness ==
  codec.stage = "decoded" /\ codec.s = <<Musei, Musei>>

\* The columns of table itineraries, as a response carries them.
Columns ==
  {"id", "title", "destination", "duration", "budget", "type", "interests",
   "activities", "content", "created_at"}

\* The response body is the whole of the row: every column, each with the
\* row's value.
WholeRecord(body, row) ==
  /\ DOMAIN body = Columns
  /\ body.id = row.id
  /\ body.title = row.title
  /\ body.destination = row.destination
  /\ body.duration = row.duration
  /\ body.budget = row.budget
  /\ body.type = row.type
  /\ JSONstringify(body.interests) = row.interests
  /\ JSONstringify(body.activities) = row.activities
  /\ body.content = row.content
  /\ body.created_at = row.created_at

\* C12: however gets and deletes of one id are ordered, a get answers
\* either NotFound, the record being gone, or the complete record as it is
\* stored, never a record with fields missing or changed.
C12_GetAllOrNothing ==
  res.op = "get" =>
    \/ res.status = 404 /\ res.req.id \notin StoredIds
    \/ /\ res.status = 200
       /\ res.req.id \in StoredIds
       /\ WholeRecord(res.body, RowOf(res.req.id))

\* A get of a deleted record was answered NotFound while another record
\* is stored.
C12_Witness ==
  /\ res.op = "get" /\ res.status = 404
  /\ res.req.id \in issued /\ itineraries # {}

Elements(list) == {list[i] : i \in DOMAIN list}
NoDuplicates(list) == \A i, j \in DOMAIN list : i # j => list[i] # list[j]

\* new is old with one absent value put at its end, or with one present
\* value taken out and the rest in their places.
OneToggled(old, new) ==
  \/ /\ Len(new) = Len(old) + 1
     /\ SubSeq(new, 1, Len(old)) = old
     /\ new[Len(new)] \notin Elements(old)
  \/ \E i \in DOMAIN old :
       /\ new = SubSeq(old, 1, i - 1) \o SubSeq(old, i + 1, Len(old))
       /\ old[i] \notin Elements(new)

\* The fields of the details a toggle has nothing to do with.
OtherFields(d) == <<d.destination, d.duration, d.budget, d.type>>

\* A step that changes interests toggles one value of it and nothing else;
\* likewise for activities.
ToggleStep ==
  /\ details'.interests # details.interests =>
       /\ OneToggled(details.interests, details'.interests)
       /\ details'.activities = details.activities
       /\ OtherFields(details') = OtherFields(details)
  /\ details'.activities # details.activities =>
       /\ OneToggled(details.activities, details'.activities)
       /\ details'.interests = details.interests
       /\ OtherFields(details') = OtherFields(details)

\* C15: from the empty selection, after any toggles interests and
\* activities hold no value twice; a toggle of an absent value puts it at
\* the end, a toggle of a present value takes it out and keeps the order
\* of the rest, and every other field of the details stays as it is.
C15_Toggles ==
  /\ [](NoDuplicates(details.interests) /\ NoDuplicates(details.activities))
  /\ [][ToggleStep]_vars

\* The first and third interests are selected, in that order (as they are
\* once the second is taken out from between them), with a destination
\* typed and an activity selected.
C15_Witness ==
  /\ details.interests = <<INTERESTS[1], INTERESTS[3]>>
  /\ details.activities # <<>>
  /\ details.destination = Str(Roma)

\* The step ends a saveTrip or deleteTrip call c in failure: a call that
\* succeeds is followed, under its number, by fetchSavedTrips.
FailedStep(c) ==
  /\ c.fn \in {"saveTrip", "deleteTrip"}
  /\ \A d \in pending' : d.k # c.k

\* C13: when a save or a delete request of the page fails, a failure
\* message is set, and itinerary, details, sharedTripId and savedTrips
\* keep the values they had.
C13_FailureSurfaced ==
  [][\A c \in pending :
       FailedStep(c) =>
         /\ error' # NoError
         /\ UNCHANGED <<itinerary, details, sharedTripId, savedTrips>>]_vars

\* C14: whenever sharedTripId is set and an itinerary is displayed, the
\* text displayed is the content stored under that id, however the calls
\* of generateItinerary, saveTrip, fetchTrip and the opening of saved trips
\* are interleaved.
C14_SharedIsDisplayed ==
  (sharedTripId # NoTrip /\ Truthy(itinerary) /\ sharedTripId \in StoredIds)
    => RowOf(sharedTripId).content = itinerary

=============================================================================
